---- MODULE Spec2Model ----
(***************************************************************************)
(* A model of the DocBook -> AsciiDoc tools of to_adoc_tools/db_to_adoc:   *)
(*   collate.py  FuncDecl._parse_parameter, MainFile, Collate              *)
(*   convert.py  the tree surgery primitives and transform_docbook         *)
(*                                                                         *)
(* A Python str is a sequence of one-character strings; a literal the code *)
(* never takes apart (a sentinel marker, a title) is written as a single   *)
(* symbol of that sequence.  A value that may be None is a sequence of     *)
(* length 0 (None) or 1 (the value).                                       *)
(***************************************************************************)
EXTENDS Integers, Sequences, FiniteSets, TLC

VARIABLES
    directory,  \* Collate: the scanned directory, a sequence of entries
    collation,  \* Collate: <<>> before construction, then <<the outcome>>
    paramdef,   \* FuncDecl: the paramdef node handed to _parse_parameter
    param,      \* FuncDecl: <<>> before the call, then <<the outcome>>
    heap,       \* convert: the lxml element objects, by identity
    docs,       \* convert: the MainFile objects of the collation
    frame,      \* convert: the locals of the running transform_docbook
    written,    \* convert: per document, the trees written so far
    calls,      \* convert, tree surgery: number of calls made so far
    last        \* tree surgery: arguments and pre-state of the last call

vars == <<directory, collation, paramdef, param, heap, docs, frame, written,
          calls, last>>

(***************************************************************************)
(* Bounds of the model.                                                    *)
(***************************************************************************)
MaxFiles == 2
MaxNameLen == 4
MaxRows == 3
MaxCalls == 2
MaxKids == 3
MaxOps == 2

(***************************************************************************)
(* Python values.                                                          *)
(***************************************************************************)
None == <<>>
Some(x) == <<x>>
IsNone(o) == o = <<>>
Val(o) == o[1]

\* list(iterable): the items, materialised once
List(ss) == ss \o <<>>

RECURSIVE JoinList(_)
JoinList(ss) == IF ss = <<>> THEN <<>> ELSE Head(ss) \o JoinList(Tail(ss))

\* "".join(seq of str)
Join(ss) == JoinList(List(ss))

\* sep.join(seq of str)
RECURSIVE JoinSep(_, _)
JoinSep(sep, ss) ==
    IF ss = <<>> THEN <<>>
    ELSE IF Len(ss) = 1 THEN ss[1]
    ELSE ss[1] \o sep \o JoinSep(sep, Tail(ss))

Range(s) == {s[i] : i \in 1..Len(s)}

\* str.startswith / str.endswith
StartsWith(s, p) == Len(s) >= Len(p) /\ SubSeq(s, 1, Len(p)) = p
EndsWith(s, p) == Len(s) >= Len(p) /\ SubSeq(s, Len(s) - Len(p) + 1, Len(s)) = p

Upper == <<"A","B","C","D","E","F","G","H","I","J","K","L","M",
           "N","O","P","Q","R","S","T","U","V","W","X","Y","Z">>
LowerOf == <<"a","b","c","d","e","f","g","h","i","j","k","l","m",
             "n","o","p","q","r","s","t","u","v","w","x","y","z">>

\* str.lower
LowerChar(c) ==
    IF \E i \in 1..Len(Upper) : Upper[i] = c
    THEN LowerOf[CHOOSE i \in 1..Len(Upper) : Upper[i] = c]
    ELSE c
Lower(s) == [i \in 1..Len(s) |-> LowerChar(s[i])]

\* str.rfind(c), 1-based; 0 when absent
RFind(s, c) ==
    IF \E i \in 1..Len(s) : s[i] = c
    THEN CHOOSE i \in 1..Len(s) : s[i] = c /\ \A j \in (i+1)..Len(s) : s[j] # c
    ELSE 0

\* str.strip, over the whitespace of the model's alphabet
IsSpace(c) == c \in {" ", "\n", "\t"}
RECURSIVE LStrip(_)
LStrip(s) == IF s # <<>> /\ IsSpace(Head(s)) THEN LStrip(Tail(s)) ELSE s
RECURSIVE RStrip(_)
RStrip(s) ==
    IF s # <<>> /\ IsSpace(s[Len(s)]) THEN RStrip(SubSeq(s, 1, Len(s) - 1)) ELSE s
Strip(s) == RStrip(LStrip(s))

\* pathlib.PurePath(p).name and .stem
PathName(p) == SubSeq(p, RFind(p, "/") + 1, Len(p))
Stem(p) ==
    LET name == PathName(p)
        i == RFind(name, ".")
    IN IF 1 < i /\ i < Len(name) THEN SubSeq(name, 1, i - 1) ELSE name

(***************************************************************************)
(* XML documents as values: an element is a record of its tag, the three   *)
(* attributes the code reads (xml:id, href, xpointer), its text, its tail  *)
(* and its child elements.                                                 *)
(***************************************************************************)
Elem(tag, text, tail, kids) ==
    [tag |-> tag, id |-> None, href |-> None, xpointer |-> None,
     text |-> text, tail |-> tail, kids |-> kids]

\* descendant::* in document order
RECURSIVE DescV(_)
DescV(t) ==
    Join([i \in 1..Len(t.kids) |-> <<t.kids[i]>> \o DescV(t.kids[i])])

\* the text() children of an element: its text, then its children's tails
TextNodesV(t) ==
    (IF IsNone(t.text) THEN <<>> ELSE <<Val(t.text)>>)
    \o Join([i \in 1..Len(t.kids) |->
               IF IsNone(t.kids[i].tail) THEN <<>> ELSE <<Val(t.kids[i].tail)>>])

(***************************************************************************)
(* collate.py: MainFile                                                    *)
(***************************************************************************)
T_refentry == "db:refentry"
T_citerefentry == "db:citerefentry"
T_refentrytitle == "db:refentrytitle"
T_include == "xi:include"
T_para == "db:para"

S_xml == <<".","x","m","l">>
S_adoc == <<".","a","d","o","c">>
S_gl == <<"g","l">>
S_gl_ == <<"g","l","_">>
S_inc == <<"_","i","n","c","_">>

H_apiversion == <<"a","p","i","v","e","r","s","i","o","n">> \o S_xml
H_apifunchead == <<"a","p","i","f","u","n","c","h","e","a","d">> \o S_xml
H_funchead == <<"f","u","n","c","h","e","a","d">> \o S_xml
H_version == <<"v","e","r","s","i","o","n">> \o S_xml
H_varhead == <<"v","a","r","h","e","a","d">> \o S_xml

ignored_includes == {H_apiversion, H_apifunchead, H_funchead, H_version, H_varhead}

\* _xpath_citation_target joined with ";"
_process_citation(node) ==
    JoinSep(<<";">>,
        Join([i \in 1..Len(node.kids) |->
                IF node.kids[i].tag = T_refentrytitle
                THEN TextNodesV(node.kids[i]) ELSE <<>>]))

IsCitation(n) == n.tag = T_citerefentry
_process_citations(xml_root) ==
    LET nodes == SelectSeq(DescV(xml_root), IsCitation)
    IN [i \in 1..Len(nodes) |-> _process_citation(nodes[i])]

_process_include(node) == Stem(Val(node.href))

\* Every xi:include of the catalogue carries an href (node.attrib['href']
\* raises KeyError without one).
IsKeptInclude(n) == n.tag = T_include /\ Val(n.href) \notin ignored_includes
_process_includes(xml_root) ==
    LET nodes == SelectSeq(DescV(xml_root), IsKeptInclude)
    IN [i \in 1..Len(nodes) |-> _process_include(nodes[i])]

\* a variant that tests the shorter prefix first
RefentryType_gl_first(stem) ==
    IF StartsWith(stem, S_gl) THEN "gl_func"
    ELSE IF StartsWith(stem, S_gl_) THEN "glsl_var"
    ELSE "glsl_func"

\* the classification of a reference entry, from the base name
RefentryType(stem) ==
    IF StartsWith(stem, S_gl_) THEN "glsl_var"
    ELSE IF StartsWith(stem, S_gl) THEN "gl_func"
    ELSE "glsl_func"

\* MainFile.__init__; file_path is the entry's name inside the directory.
\* The documents of the catalogue hold no name division and no function
\* prototype, so _process_header and _process_functions add nothing that
\* the collation reads.
MainFile(file_path, xml_root) ==
    LET stem == Stem(file_path)
        isRef == xml_root.tag = T_refentry
    IN [file_path |-> file_path,
        name      |-> stem,
        type      |-> IF isRef THEN RefentryType(stem) ELSE "included",
        adoc_path |-> IF isRef THEN stem \o S_adoc ELSE S_inc \o stem \o S_adoc,
        citations |-> _process_citations(xml_root),
        includes  |-> _process_includes(xml_root)]

(***************************************************************************)
(* collate.py: Collate                                                     *)
(***************************************************************************)
\* A dict built from the records in order: the keys in insertion order, and
\* for each key the last record inserted under it.
DictByName(files) ==
    LET names == {files[i].name : i \in 1..Len(files)}
        IsFirst(i) == \A j \in 1..(i-1) : files[j].name # files[i].name
        idx == SelectSeq([i \in 1..Len(files) |-> i], IsFirst)
    IN [keys |-> [k \in 1..Len(idx) |-> files[idx[k]].name],
        at   |-> [n \in names |->
                    files[CHOOSE i \in 1..Len(files) :
                            /\ files[i].name = n
                            /\ \A j \in (i+1)..Len(files) : files[j].name # n]]]

HasKey(dict, k) == k \in DOMAIN dict.at

\* Collate._collate_docbook: an entry whose text is not well-formed XML has
\* xml = None; etree.parse raises XMLSyntaxError, the handler prints and the
\* method falls off its end, returning None.
_collate_docbook(entry) ==
    IF IsNone(entry.xml) THEN None ELSE Some(MainFile(entry.name, Val(entry.xml)))

\* Collate._verify_collation
_verify_collation(all_files, all_by_name, by_type) ==
    IF "included" \notin DOMAIN by_type
    THEN [status |-> "KeyError"]
    ELSE
    LET include_list == by_type["included"]
        missing_includes ==
            Join([i \in 1..Len(all_files) |->
                LET file == all_files[i]
                    Missing(incl) == ~HasKey(include_list, incl)
                    m == SelectSeq(file.includes, Missing)
                IN [k \in 1..Len(m) |-> <<file.name, m[k]>>]])
        included_set ==
            UNION {Range(all_files[i].includes) : i \in 1..Len(all_files)}
        NotIncluded(name) == name \notin included_set
        files_not_included == SelectSeq(include_list.keys, NotIncluded)
        uncited_files ==
            Join([i \in 1..Len(all_files) |->
                LET file == all_files[i]
                    Unknown(c) == ~HasKey(all_by_name, c)
                    u == SelectSeq(file.citations, Unknown)
                IN [k \in 1..Len(u) |-> <<file.name, u[k]>>]])
    IN [status             |-> "ok",
        missing_includes   |-> missing_includes,
        files_not_included |-> files_not_included,
        uncited_files      |-> uncited_files]

IsCandidate(entry) ==
    /\ entry.is_file
    /\ EndsWith(Lower(entry.name), S_xml)
    /\ entry.name \notin ignored_includes

\* Collate.__init__ over the entries os.scandir yields.  The outcome is the
\* exception that leaves the constructor, or the constructed object.
Collate__init__(dir) ==
    LET cand == SelectSeq(dir, IsCandidate)
        all_files == [i \in 1..Len(cand) |-> _collate_docbook(cand[i])]
        IsBad(e) == IsNone(e.xml)
        bad == SelectSeq(cand, IsBad)
        printed == [i \in 1..Len(bad) |-> bad[i].name]
    IN IF \E i \in 1..Len(all_files) : IsNone(all_files[i])
       THEN \* file.name() on None, while indexing by name
            [status |-> "AttributeError", printed |-> printed]
       ELSE
       LET files == [i \in 1..Len(all_files) |-> Val(all_files[i])]
           all_by_name == DictByName(files)
           types == {files[i].type : i \in 1..Len(files)}
           by_type == [t \in types |->
                         LET OfType(f) == f.type = t
                         IN DictByName(SelectSeq(files, OfType))]
           v == _verify_collation(files, all_by_name, by_type)
       IN IF v.status # "ok"
          THEN [status |-> v.status, printed |-> printed]
          ELSE [status             |-> "ok",
                printed            |-> printed,
                all_files          |-> files,
                all_by_name        |-> all_by_name,
                by_type            |-> by_type,
                missing_includes   |-> v.missing_includes,
                files_not_included |-> v.files_not_included,
                uncited_files      |-> v.uncited_files]

(***************************************************************************)
(* The directories the collation is built from.                            *)
(***************************************************************************)
N_glFoo == <<"g","l","F","o","o">>
N_gl_PointSize == <<"g","l","_","P","o","i","n","t","S","i","z","e">>
N_mix == <<"m","i","x">>
N_frag1 == <<"f","r","a","g","1">>
N_missing == <<"m","i","s","s","i","n","g">>
N_nothere == <<"n","o","t","h","e","r","e">>

Inc(href) == [Elem(T_include, None, None, <<>>) EXCEPT !.href = Some(href)]
Cite(target) ==
    Elem(T_citerefentry, None, None,
         <<Elem(T_refentrytitle, Some(target), None, <<>>)>>)

X_ref_plain ==
    Elem(T_refentry, None, None, <<Elem(T_para, None, None, <<Cite(N_glFoo)>>)>>)
X_ref_incl ==
    Elem(T_refentry, None, None,
         <<Elem(T_para, None, None, <<Inc(N_frag1 \o S_xml)>>)>>)
X_ref_ignored ==
    Elem(T_refentry, None, None,
         <<Inc(H_version), Inc(<<"s","u","b","/">> \o N_missing \o S_xml)>>)
X_frag_plain == Elem(T_para, Some(<<"t">>), None, <<>>)
X_frag_self == Elem(T_para, None, None, <<Inc(N_frag1 \o S_xml)>>)
X_frag_cite == Elem("db:refsect1", None, None, <<Cite(N_nothere)>>)

Contents ==
    {None} \cup {Some(x) : x \in {X_ref_plain, X_ref_incl, X_ref_ignored,
                                  X_frag_plain, X_frag_self, X_frag_cite}}

XmlNames ==
    {N_glFoo \o S_xml, N_gl_PointSize \o S_xml, N_mix \o S_xml,
     N_frag1 \o S_xml, S_inc \o N_frag1 \o S_xml,
     N_frag1 \o <<".","X","M","L">>}

Entries ==
    {[name |-> n, is_file |-> TRUE, xml |-> x] : n \in XmlNames, x \in Contents}
    \cup {[name |-> H_version, is_file |-> TRUE, xml |-> Some(X_frag_plain)],
          [name |-> <<"n","o","t","e","s",".","t","x","t">>, is_file |-> TRUE,
           xml |-> None],
          [name |-> <<"s","u","b",".","x","m","l">>, is_file |-> FALSE,
           xml |-> None]}

\* every listing of at most n entries with distinct names
RECURSIVE Directories(_)
Directories(n) ==
    IF n = 0 THEN {<<>>}
    ELSE LET prev == Directories(n - 1)
         IN prev \cup
            {Append(de[1], de[2]) :
                de \in {x \in prev \X Entries :
                          /\ Len(x[1]) = n - 1
                          /\ \A i \in 1..Len(x[1]) : x[1][i].name # x[2].name}}

InitCollate ==
    /\ directory \in Directories(MaxFiles)
    /\ collation = None
    /\ paramdef = None /\ param = None
    /\ heap = <<>> /\ docs = <<>> /\ frame = None /\ written = <<>> /\ calls = 0
    /\ last = None

\* Collate(doc_dir_path)
Construct ==
    /\ collation = None
    /\ collation' = Some(Collate__init__(directory))
    /\ UNCHANGED <<directory, paramdef, param, heap, docs, frame, written,
                   calls, last>>

NextCollate == Construct

SpecCollate == InitCollate /\ [][NextCollate]_vars

(***************************************************************************)
(* Claims about Collate, checked under SpecCollate.                        *)
(***************************************************************************)
Built == ~IsNone(collation)
Outcome == Val(collation)
Candidates == SelectSeq(directory, IsCandidate)
WellFormed(e) == ~IsNone(e.xml)
WellFormedCandidates == SelectSeq(Candidates, WellFormed)
ExpectedRecords ==
    [i \in 1..Len(WellFormedCandidates) |->
        MainFile(WellFormedCandidates[i].name, Val(WellFormedCandidates[i].xml))]

\* C1: when some .xml file of the directory has an XML syntax error, that
\* file is logged and left out, construction completes, and the record
\* list, the by-name index and the classification buckets hold exactly the
\* records of the remaining well-formed files.
C1_SyntaxErrorFileIsSkipped ==
    (Built /\ \E i \in 1..Len(Candidates) : ~WellFormed(Candidates[i])) =>
        /\ Outcome.status = "ok"
        /\ \A i \in 1..Len(Candidates) :
              ~WellFormed(Candidates[i]) => Candidates[i].name \in Range(Outcome.printed)
        /\ Outcome.all_files = ExpectedRecords
        /\ DOMAIN Outcome.all_by_name.at = {r.name : r \in Range(ExpectedRecords)}
        /\ \A t \in DOMAIN Outcome.by_type :
              DOMAIN Outcome.by_type[t].at =
                  {r.name : r \in {x \in Range(ExpectedRecords) : x.type = t}}

\* C2: for every directory of well-formed files, building the Collation
\* does not raise, and the missing-include diagnostics are exactly the pairs
\* (referencing file base name, target) with target in that file's
\* includeTargets and naming no record classified as included-fragment.
C2_MissingIncludesReported ==
    (Built /\ \A i \in 1..Len(Candidates) : WellFormed(Candidates[i])) =>
        /\ Outcome.status = "ok"
        /\ Range(Outcome.missing_includes) =
              {<<r.name, t>> : <<r, t>> \in
                  {x \in Range(ExpectedRecords) \X
                         UNION {Range(q.includes) : q \in Range(ExpectedRecords)} :
                     /\ x[2] \in Range(x[1].includes)
                     /\ ~\E f \in Range(ExpectedRecords) :
                           f.type = "included" /\ f.name = x[2]}}

\* the entry a record was built from
EntryOf(r) == CHOOSE e \in Range(directory) : e.name = r.file_path

\* C3: a reference entry is classified from its base name alone: a name
\* starting with gl_ is a variable, otherwise a name starting with gl is a
\* GL function, otherwise a GLSL function; a record whose root is not a
\* reference entry is an included fragment whatever its base name.
C3_ClassificationByPrefix ==
    (Built /\ Outcome.status = "ok") =>
        \A i \in 1..Len(Outcome.all_files) :
            LET r == Outcome.all_files[i]
                n == r.name
                root == Val(EntryOf(r).xml).tag
                gl == Len(n) >= 2 /\ n[1] = "g" /\ n[2] = "l"
            IN /\ root # "db:refentry" => r.type = "included"
               /\ (root = "db:refentry" /\ gl /\ Len(n) >= 3 /\ n[3] = "_")
                     => r.type = "glsl_var"
               /\ (root = "db:refentry" /\ gl /\ ~(Len(n) >= 3 /\ n[3] = "_"))
                     => r.type = "gl_func"
               /\ (root = "db:refentry" /\ ~gl) => r.type = "glsl_func"
               /\ (root = "db:refentry" /\ n = N_gl_PointSize) => r.type = "glsl_var"
               /\ (root = "db:refentry" /\ n = N_glFoo) => r.type = "gl_func"
               /\ (root = "db:refentry" /\ n = N_mix) => r.type = "glsl_func"

\* a collation holding the variable gl_PointSize beside a fragment named
\* after a GL function
C3_Witness ==
    /\ Built /\ Outcome.status = "ok"
    /\ \E i, j \in 1..Len(Outcome.all_files) :
          /\ Outcome.all_files[i].name = N_gl_PointSize
          /\ Outcome.all_files[i].type = "glsl_var"
          /\ Outcome.all_files[j].name = N_glFoo
          /\ Outcome.all_files[j].type = "included"

\* C4: in every Collation built from files with pairwise distinct base
\* names, no two records have the same destination name.
C4_DestinationNamesUnique ==
    (/\ Built /\ Outcome.status = "ok"
     /\ \A i, j \in 1..Len(Outcome.all_files) :
           i # j => Outcome.all_files[i].name # Outcome.all_files[j].name) =>
        \A i, j \in 1..Len(Outcome.all_files) :
            i # j => Outcome.all_files[i].adoc_path # Outcome.all_files[j].adoc_path

\* C8: the orphan check reports exactly the fragments that are not named
\* in the includeTargets of some other record; a fragment whose only
\* includer is itself is reported.
C8_OrphansReported ==
    (Built /\ Outcome.status = "ok") =>
        Range(Outcome.files_not_included) =
            {Outcome.all_files[i].name : i \in
                {k \in 1..Len(Outcome.all_files) :
                    /\ Outcome.all_files[k].type = "included"
                    /\ ~\E j \in 1..Len(Outcome.all_files) :
                          /\ j # k
                          /\ Outcome.all_files[k].name
                                \in Range(Outcome.all_files[j].includes)}}

(***************************************************************************)
(* collate.py: FuncDecl._parse_parameter                                   *)
(***************************************************************************)
NoNewline(s) == \A i \in 1..Len(s) : s[i] # "\n"

\* _re_name_array.match(name), the pattern (.+)(\[.+\]) anchored at the
\* start only: None, or the two groups.  Both .+ are greedy: the first takes
\* the longest prefix after which a bracketed group can still be matched,
\* the second then runs to the last closing bracket.
ArrayMatches(name) ==
    {ij \in (1..Len(name)) \X (1..Len(name)) :
        /\ ij[1] + 3 <= ij[2]
        /\ name[ij[1] + 1] = "["
        /\ name[ij[2]] = "]"
        /\ NoNewline(SubSeq(name, 1, ij[2]))}
_re_name_array_match(name) ==
    IF ArrayMatches(name) = {} THEN None
    ELSE LET i == CHOOSE a \in {m[1] : m \in ArrayMatches(name)} :
                    \A m \in ArrayMatches(name) : m[1] <= a
             j == CHOOSE b \in {m[2] : m \in {x \in ArrayMatches(name) : x[1] = i}} :
                    \A m \in ArrayMatches(name) : m[1] = i => m[2] <= b
         IN Some(<<SubSeq(name, 1, i), SubSeq(name, i + 1, j)>>)

S_void == <<"void">>

\* FuncDecl._parse_parameter(paramdef): paramdef.text, and the db:parameter
\* children of paramdef, each with its text.
_parse_parameter(pd) ==
    IF IsNone(pd.text) THEN [status |-> "ok", value |-> [type |-> S_void]]
    ELSE
    LET type0 == Strip(Val(pd.text))
        optional == StartsWith(type0, <<"[">>)
        type1 == IF optional THEN Tail(type0) ELSE type0
        name_node == pd.parameter
    IN IF Len(name_node) = 0
       THEN [status |-> "ok",
             value |-> [type |-> type1, name |-> <<>>, optional |-> optional]]
       ELSE IF IsNone(name_node[1].text)
       THEN \* None.strip()
            [status |-> "AttributeError"]
       ELSE
       LET name0 == Strip(Val(name_node[1].text))
           match == _re_name_array_match(name0)
           name1 == IF IsNone(match) THEN name0 ELSE Val(match)[1]
           type2 == IF IsNone(match) THEN type1 ELSE type1 \o Val(match)[2]
           name2 == IF EndsWith(name1, <<"]">>)
                    THEN SubSeq(name1, 1, Len(name1) - 1) ELSE name1
       IN [status |-> "ok",
           value |-> [type |-> type2, name |-> name2, optional |-> optional]]

(***************************************************************************)
(* The parameter definitions that are parsed.                              *)
(***************************************************************************)
NameAlphabet == {"v", "[", "4", "]", " "}

RECURSIVE Strings(_)
Strings(n) ==
    IF n = 0 THEN {<<>>}
    ELSE Strings(n - 1) \cup
         {Append(s, c) : s \in {x \in Strings(n - 1) : Len(x) = n - 1},
                         c \in NameAlphabet}

\* names with two array suffixes, and with text after the suffix
LongNames ==
    {<<"v","[","4","]","[","4","]">>, <<"v","[","4","]","[","4","4","]">>,
     <<"v","v","[","4","]","v","v">>, <<" ","v","[","4","]","\n">>}

TypeTexts ==
    {<<"GLint">>, <<" ", "GLint", "\n">>, <<"[", "GLint">>,
     <<"const", " ", "GLfloat", " ", "*">>}

ParamDefs ==
    {[text |-> t, parameter |-> ps] :
        t \in {None} \cup {Some(x) : x \in TypeTexts},
        ps \in {<<>>, <<[text |-> None]>>}
               \cup {<<[text |-> Some(n)]>> : n \in Strings(MaxNameLen) \cup LongNames}}

InitParam ==
    /\ paramdef \in {Some(pd) : pd \in ParamDefs}
    /\ param = None
    /\ directory = <<>> /\ collation = None
    /\ heap = <<>> /\ docs = <<>> /\ frame = None /\ written = <<>> /\ calls = 0
    /\ last = None

\* FuncDecl._parse_parameter(paramdef)
ParseParameter ==
    /\ param = None
    /\ param' = Some(_parse_parameter(Val(paramdef)))
    /\ UNCHANGED <<directory, collation, paramdef, heap, docs, frame, written,
                   calls, last>>

NextParam == ParseParameter

SpecParam == InitParam /\ [][NextParam]_vars

(***************************************************************************)
(* Claims about FuncDecl._parse_parameter, checked under SpecParam.        *)
(***************************************************************************)
NoBracket(s) == \A i \in 1..Len(s) : s[i] \notin {"[", "]"}

\* one or more bracketed groups, each with a non-empty bracket-free inside
RECURSIVE IsArraySuffix(_)
IsArraySuffix(s) ==
    /\ Len(s) >= 3
    /\ s[1] = "["
    /\ \E j \in 3..Len(s) :
          /\ s[j] = "]"
          /\ NoBracket(SubSeq(s, 2, j - 1))
          /\ (j = Len(s) \/ IsArraySuffix(SubSeq(s, j + 1, Len(s))))

\* where the array suffix of a name starts: 0 when the name is not a
\* bracket-free base followed by an array suffix
SuffixStart(n) ==
    IF \E k \in 2..Len(n) :
          NoBracket(SubSeq(n, 1, k - 1)) /\ IsArraySuffix(SubSeq(n, k, Len(n)))
    THEN CHOOSE k \in 2..Len(n) :
          NoBracket(SubSeq(n, 1, k - 1)) /\ IsArraySuffix(SubSeq(n, k, Len(n)))
    ELSE 0

Parsed == ~IsNone(param)
TypeGiven == ~IsNone(Val(paramdef).text)
NameGiven ==
    Len(Val(paramdef).parameter) > 0 /\ ~IsNone(Val(paramdef).parameter[1].text)
GivenName == Strip(Val(Val(paramdef).parameter[1].text))
GivenType == Strip(Val(Val(paramdef).text))

\* C7: for every parameter declaration that has type text and whose trimmed
\* name ends in a bracketed array suffix, the array suffix is appended to the
\* type and the resulting name keeps no part of it (no bracket character),
\* also for names with more than one suffix.
C7_ArraySuffixFoldedIntoType ==
    (Parsed /\ TypeGiven /\ NameGiven /\ SuffixStart(GivenName) > 0) =>
        /\ Val(param).status = "ok"
        /\ NoBracket(Val(param).value.name)
        /\ Val(param).value.name = SubSeq(GivenName, 1, SuffixStart(GivenName) - 1)
        /\ Val(param).value.type =
              (IF StartsWith(GivenType, <<"[">>) THEN Tail(GivenType) ELSE GivenType)
              \o SubSeq(GivenName, SuffixStart(GivenName), Len(GivenName))
        /\ Val(param).value.optional = StartsWith(GivenType, <<"[">>)

\* C11: _parse_parameter raises no error for any parameter definition:
\* whether the declaration text is absent or present, and whether the nested
\* name node is absent, present with text or present with no text, it
\* returns a record, the void record when the declaration has no text and
\* otherwise one holding a type, a name and the optional flag.
C11_ParameterParserNeverRaises ==
    Parsed =>
        /\ Val(param).status = "ok"
        /\ IF TypeGiven
           THEN DOMAIN Val(param).value = {"type", "name", "optional"}
           ELSE Val(param).value = [type |-> S_void]

(***************************************************************************)
(* lxml element objects.  heap[n] is the element with identity n: its tag, *)
(* attributes, text, tail, parent (0 for None) and child elements.         *)
(* etree.Element allocates the next identity.                              *)
(***************************************************************************)
RECURSIVE SumList(_)
SumList(s) == IF s = <<>> THEN 0 ELSE Head(s) + SumList(Tail(s))

SumSeq(s) == SumList(List(s))

RECURSIVE Size(_)
Size(t) == 1 + SumSeq([i \in 1..Len(t.kids) |-> Size(t.kids[i])])

\* the elements of document t, parsed into identities base+1, base+2, ...
RECURSIVE Parse(_, _, _)
Parse(t, base, parent) ==
    LET kid(i) == base + 2 + SumSeq([j \in 1..(i-1) |-> Size(t.kids[j])])
    IN <<[tag |-> t.tag, id |-> t.id, href |-> t.href, xpointer |-> t.xpointer,
          text |-> t.text, tail |-> t.tail, parent |-> parent,
          kids |-> List([i \in 1..Len(t.kids) |-> kid(i)])]>>
       \o Join([i \in 1..Len(t.kids) |-> Parse(t.kids[i], kid(i) - 1, base + 1)])

\* the document rooted at element n, as a value
RECURSIVE Tree(_, _)
Tree(h, n) ==
    [tag |-> h[n].tag, id |-> h[n].id, href |-> h[n].href,
     xpointer |-> h[n].xpointer, text |-> h[n].text, tail |-> h[n].tail,
     kids |-> List([i \in 1..Len(h[n].kids) |-> Tree(h, h[n].kids[i])])]

\* descendant::* of n in document order
RECURSIVE Desc(_, _)
Desc(h, n) ==
    Join([i \in 1..Len(h[n].kids) |-> <<h[n].kids[i]>> \o Desc(h, h[n].kids[i])])

OrEmpty(o) == IF IsNone(o) THEN <<>> ELSE Val(o)

\* "".join(node.itertext(with_tail=False)), which is also the joined
\* descendant::text() of node
RECURSIVE InnerText(_, _)
InnerText(h, n) ==
    OrEmpty(h[n].text)
    \o Join([i \in 1..Len(h[n].kids) |->
               InnerText(h, h[n].kids[i]) \o OrEmpty(h[h[n].kids[i]].tail)])

IndexIn(s, x) == CHOOSE i \in 1..Len(s) : s[i] = x

\* node.getprevious(); 0 for None
getprevious(h, n) ==
    IF h[n].parent = 0 THEN 0
    ELSE LET sibs == h[h[n].parent].kids
             i == IndexIn(sibs, n)
         IN IF i = 1 THEN 0 ELSE sibs[i - 1]

RemoveAt(s, i) == SubSeq(s, 1, i - 1) \o SubSeq(s, i + 1, Len(s))

\* parent.remove(node): the element leaves with its tail
remove(h, parent, node) ==
    [h EXCEPT ![parent].kids = RemoveAt(@, IndexIn(@, node)),
              ![node].parent = 0]

\* parent.replace(old, new): each element keeps its own tail
replace(h, parent, old, new) ==
    [h EXCEPT ![parent].kids = [@ EXCEPT ![IndexIn(@, old)] = new],
              ![old].parent = 0,
              ![new].parent = parent]

(***************************************************************************)
(* convert.py: the tree surgery primitives.  Each yields the heap after    *)
(* the call, or the exception that leaves it.                              *)
(***************************************************************************)
Ok(h) == [status |-> "ok", heap |-> h]
Raised(e, h) == [status |-> e, heap |-> h]

\* where text + tail goes when no preceding sibling exists
_splice_into_parent(h, node, new_text, tail) ==
    LET parent_node == h[node].parent
    IN [h EXCEPT ![parent_node].text = Some(OrEmpty(@) \o new_text \o tail)]

\* a variant that always splices into the parent's leading text
_replace_element_text_ignoring_sibling(h, node, new_text) ==
    IF h[node].parent = 0 THEN Raised("AttributeError", h)
    ELSE Ok(remove(_splice_into_parent(h, node, new_text, OrEmpty(h[node].tail)),
                   h[node].parent, node))

_replace_element_text(h, node, new_text) ==
    LET tail == OrEmpty(h[node].tail)
        previous_node == getprevious(h, node)
    IN IF previous_node # 0
       THEN Ok(remove([h EXCEPT ![previous_node].tail =
                           Some(OrEmpty(@) \o new_text \o tail)],
                      h[node].parent, node))
       ELSE IF h[node].parent = 0
       THEN \* parent_node.text with parent_node None
            Raised("AttributeError", h)
       ELSE Ok(remove(_splice_into_parent(h, node, new_text, tail),
                      h[node].parent, node))

_retag_element_text(h, node, prefix, suffix) ==
    _replace_element_text(h, node, prefix \o InnerText(h, node) \o suffix)

\* a variant that never keeps the interior text
_remove_element_without_text(h, node, preserve_text) ==
    _replace_element_text(h, node, <<>>)

_remove_element(h, node, preserve_text) ==
    _replace_element_text(h, node,
        IF preserve_text THEN InnerText(h, node) ELSE <<>>)

(***************************************************************************)
(* The tree surgery primitives applied to the elements of small documents. *)
(***************************************************************************)
Numeral(i) == <<"1","2","3","4","5","6","7","8","9">>[i]

\* child i of the documents below; the first child has a child of its own
SurgeryKid(i, tail) ==
    Elem("db:k", Some(<<"c", Numeral(i)>>), tail,
         IF i = 1 THEN <<Elem("db:g", Some(<<"g">>), Some(<<"h">>), <<>>)>>
         ELSE <<>>)

RECURSIVE KidSeqs(_)
KidSeqs(n) ==
    IF n = 0 THEN {<<>>}
    ELSE KidSeqs(n - 1) \cup
         {Append(ks, SurgeryKid(n, tl)) :
             ks \in {x \in KidSeqs(n - 1) : Len(x) = n - 1},
             tl \in {None, Some(<<"t", Numeral(n)>>)}}

SurgeryTrees ==
    {Elem("db:p", tx, None, ks) : tx \in {None, Some(<<"p">>)},
                                  ks \in KidSeqs(MaxKids)}

InitSurgery ==
    /\ heap \in {Parse(t, 0, 0) : t \in SurgeryTrees}
    /\ last = None
    /\ directory = <<>> /\ collation = None
    /\ paramdef = None /\ param = None
    /\ docs = <<>> /\ frame = None /\ written = <<>> /\ calls = 0

\* what a call leaves behind: the heap after it, and a record of the call
Surgery(op, node, text, r) ==
    /\ calls < MaxOps
    /\ calls' = calls + 1
    /\ heap' = r.heap
    /\ last' = Some([op |-> op, node |-> node, text |-> text,
                     status |-> r.status, before |-> heap])
    /\ UNCHANGED <<directory, collation, paramdef, param, docs, frame, written>>

\* _replace_element_text(node, new_text)
ReplaceElementText ==
    \E n \in 1..Len(heap), new_text \in {<<>>, <<"X">>} :
        Surgery("replace", n, new_text, _replace_element_text(heap, n, new_text))

\* _retag_element_text(node, prefix, suffix)
RetagElementText ==
    \E n \in 1..Len(heap) :
        Surgery("retag", n, <<"<">> \o InnerText(heap, n) \o <<">">>,
                   _retag_element_text(heap, n, <<"<">>, <<">">>))

\* _remove_element(node, preserve_text)
RemoveElement ==
    \E n \in 1..Len(heap), preserve_text \in BOOLEAN :
        Surgery("remove", n, IF preserve_text THEN InnerText(heap, n) ELSE <<>>,
                   _remove_element(heap, n, preserve_text))

NextSurgery == ReplaceElementText \/ RetagElementText \/ RemoveElement

SpecSurgery == InitSurgery /\ [][NextSurgery]_vars

(***************************************************************************)
(* Claims about the tree surgery primitives, checked under SpecSurgery.    *)
(***************************************************************************)
Replaced == ~IsNone(last) /\ Val(last).status = "ok"
Before == Val(last).before
RNode == Val(last).node
RText == Val(last).text
RParent == Before[RNode].parent
RIndex == IndexIn(Before[RParent].kids, RNode)

\* the parent's text stream before the call, with the node's subtree
\* replaced by the text
ExpectedStream ==
    OrEmpty(Before[RParent].text)
    \o Join([j \in 1..Len(Before[RParent].kids) |->
               (IF j = RIndex THEN RText
                ELSE InnerText(Before, Before[RParent].kids[j]))
               \o OrEmpty(Before[Before[RParent].kids[j]].tail)])

\* C9: replaceWithText(node, text) removes node from its parent and leaves
\* the parent's text stream equal to the stream before with node's subtree
\* replaced by text, node's tail kept right after it: text + tail is
\* appended to the preceding sibling's tail when there is one, otherwise to
\* the parent's leading text; a missing text or tail counts as empty; no
\* other child's content, tail or position changes; with an only child, no
\* tail and no parent text, the parent's leading text is exactly text.
C9_ReplaceWithTextKeepsStream ==
    Replaced =>
        LET kidsb == Before[RParent].kids
            spliced == RText \o OrEmpty(Before[RNode].tail)
        IN /\ heap[RParent].kids = RemoveAt(kidsb, RIndex)
           /\ heap[RNode].parent = 0
           /\ InnerText(heap, RParent) = ExpectedStream
           /\ IF RIndex > 1
              THEN /\ heap[kidsb[RIndex - 1]].tail =
                         Some(OrEmpty(Before[kidsb[RIndex - 1]].tail) \o spliced)
                   /\ heap[RParent].text = Before[RParent].text
              ELSE heap[RParent].text = Some(OrEmpty(Before[RParent].text) \o spliced)
           /\ \A j \in 1..Len(kidsb) :
                 j # RIndex =>
                    /\ Tree(heap, kidsb[j]).kids = Tree(Before, kidsb[j]).kids
                    /\ heap[kidsb[j]].text = Before[kidsb[j]].text
                    /\ j # RIndex - 1 => heap[kidsb[j]].tail = Before[kidsb[j]].tail
           /\ (Len(kidsb) = 1 /\ IsNone(Before[RNode].tail)
                 /\ IsNone(Before[RParent].text)) => heap[RParent].text = Some(RText)

\* a middle child with a tail was replaced by a non-empty text, after a
\* sibling that had no tail
C9_Witness ==
    /\ Replaced
    /\ Val(last).op = "replace"
    /\ RText # <<>>
    /\ RIndex = 2
    /\ Len(Before[RParent].kids) = 3
    /\ ~IsNone(Before[RNode].tail)
    /\ IsNone(Before[Before[RParent].kids[1]].tail)

(***************************************************************************)
(* convert.py: the structural rewrites.                                    *)
(***************************************************************************)
T_refsynopsisdiv == "db:refsynopsisdiv"
T_refsect1 == "db:refsect1"
T_title == "db:title"
T_row == "db:row"
T_entry == "db:entry"

\* a new element object, as etree.Element / etree.SubElement make it
NewElement(tag, id, text, tail, parent, kids) ==
    [tag |-> tag, id |-> id, href |-> None, xpointer |-> None,
     text |-> text, tail |-> tail, parent |-> parent, kids |-> kids]

_xpath_synopsis(h, n) ==
    LET Is(d) == h[d].tag = T_refsynopsisdiv IN SelectSeq(Desc(h, n), Is)
_xpath_seealso(h, n) ==
    LET Is(d) == h[d].id = Some("seealso") IN SelectSeq(Desc(h, n), Is)
_xpath_versions(h, n) ==
    LET Is(d) == h[d].id = Some("versions") IN SelectSeq(Desc(h, n), Is)
_xpath_citations(h, n) ==
    LET Is(d) == h[d].tag = T_citerefentry IN SelectSeq(Desc(h, n), Is)

\* descendant::db:row/db:entry
_xpath_version_func_names(h, n) ==
    LET Is(d) == /\ h[d].tag = T_entry
                 /\ h[d].parent # n
                 /\ h[h[d].parent].tag = T_row
    IN SelectSeq(Desc(h, n), Is)

\* descendant::db:row/xi:include/@xpointer
_xpath_version_func_xptr(h, n) ==
    LET Is(d) == /\ h[d].tag = T_include
                 /\ h[d].parent # n
                 /\ h[h[d].parent].tag = T_row
                 /\ ~IsNone(h[d].xpointer)
        nodes == SelectSeq(Desc(h, n), Is)
    IN List([i \in 1..Len(nodes) |-> Val(h[nodes[i]].xpointer)])

S_role == <<"@","r","o","l","e","=","'">>

\* _re_version_number.search(xptr), the pattern @role='(.+)': the leftmost
\* start, then the greedy group up to the last quote
RoleMatches(x) ==
    {ij \in (1..Len(x)) \X (1..Len(x)) :
        /\ ij[1] + Len(S_role) + 1 <= ij[2]
        /\ SubSeq(x, ij[1], ij[1] + Len(S_role) - 1) = S_role
        /\ x[ij[2]] = "'"
        /\ NoNewline(SubSeq(x, ij[1] + Len(S_role), ij[2] - 1))}

_parse_version_from_xpointer(xptr) ==
    IF RoleMatches(xptr) = {} THEN xptr
    ELSE LET i == CHOOSE a \in {m[1] : m \in RoleMatches(xptr)} :
                    \A m \in RoleMatches(xptr) : a <= m[1]
             j == CHOOSE b \in {m[2] : m \in {x \in RoleMatches(xptr) : x[1] = i}} :
                    \A m \in RoleMatches(xptr) : m[1] = i => m[2] <= b
         IN SubSeq(xptr, i + Len(S_role), j - 1)

Min(a, b) == IF a <= b THEN a ELSE b
Max(a, b) == IF a >= b THEN a ELSE b

\* a variant that pads the shorter list with empty strings
zip_padded(funcs, xptrs) ==
    List([i \in 1..Max(Len(funcs), Len(xptrs)) |->
            <<IF i <= Len(funcs) THEN funcs[i] ELSE <<>>,
              IF i <= Len(xptrs) THEN xptrs[i] ELSE <<>>>>])

\* zip(funcs, xptrs)
zip(funcs, xptrs) ==
    List([i \in 1..Min(Len(funcs), Len(xptrs)) |-> <<funcs[i], xptrs[i]>>])

VersionText(func, xptr) ==
    <<"VERSION OF '">> \o func \o <<"' FOR '">> \o xptr \o <<"'">>

\* _replace_seealso(seealso_node)
_replace_seealso(h, seealso_node) ==
    LET n == Len(h) + 1
        h1 == h \o
          <<NewElement(h[seealso_node].tag, Some("seealso"), None,
                       h[seealso_node].tail, 0, <<n + 1, n + 2>>),
            NewElement(T_title, None, Some(<<"See Also">>), Some(<<"\n\t\t">>),
                       n, <<>>),
            NewElement(T_para, None, Some(<<"SEEALSO_TEXT_REPLACEMENT">>),
                       Some(<<"\n\t">>), n, <<>>)>>
    IN IF h[seealso_node].parent = 0 THEN Raised("AttributeError", h1)
       ELSE Ok(replace(h1, h[seealso_node].parent, seealso_node, n))

\* one turn of the loop of _replace_versions
_replace_version(h, version_node) ==
    LET n == Len(h) + 1
        names == _xpath_version_func_names(h, version_node)
        funcs == List([i \in 1..Len(names) |-> InnerText(h, names[i])])
        ptrs == _xpath_version_func_xptr(h, version_node)
        xptrs == List([i \in 1..Len(ptrs) |->
                         _parse_version_from_xpointer(ptrs[i])])
        pairs == zip(funcs, xptrs)
        k == Len(pairs)
        h1 == h \o
          <<NewElement(h[version_node].tag, Some("versions"), None,
                       h[version_node].tail, 0,
                       List([i \in 1..(k + 3) |-> n + i])),
            NewElement(T_title, None, Some(<<"Versions">>), Some(<<"\n\t\t">>),
                       n, <<>>),
            NewElement(T_para, None, Some(<<"VERSION_START_DELIMETER">>),
                       Some(<<"\n\t\t">>), n, <<>>)>>
          \o [i \in 1..k |->
                NewElement(T_para, None,
                           Some(VersionText(pairs[i][1], pairs[i][2])),
                           Some(<<"\n\t\t">>), n, <<>>)]
          \o <<NewElement(T_para, None, Some(<<"VERSION_END_DELIMETER">>),
                          Some(<<"\n\t">>), n, <<>>)>>
    IN IF h[version_node].parent = 0 THEN Raised("AttributeError", h1)
       ELSE Ok(replace(h1, h[version_node].parent, version_node, n))

\* _replace_synopsis(xml_root)
_replace_synopsis(h, xml_root) ==
    LET found == _xpath_synopsis(h, xml_root)
        synopsis_node == found[1]
        n == Len(h) + 1
        h1 == h \o
          <<NewElement(T_refsect1, None, None, h[synopsis_node].tail, 0,
                       <<n + 1, n + 2>>),
            NewElement(T_title, None, Some(<<"Functions">>), Some(<<"\n\t\t">>),
                       n, <<>>),
            NewElement(T_para, None, Some(<<"FUNCSYNOPSIS_TEXT_REPLACEMENT">>),
                       Some(<<"\n\t">>), n, <<>>)>>
    IN IF Len(found) = 0 THEN Raised("IndexError", h)
       ELSE Ok(replace(h1, h[synopsis_node].parent, synopsis_node, n))

\* a variant that hands out the stored tree itself
copy_xml_alias(h, xml_root) == [heap |-> h, root |-> xml_root]

\* MainFile.copy_xml: copy.deepcopy(self._xml_root)
copy_xml(h, xml_root) ==
    [heap |-> h \o Parse(Tree(h, xml_root), Len(h), 0), root |-> Len(h) + 1]

\* the element objects still referenced once a call has returned: those of
\* the stored documents
release(h, roots) ==
    LET ids == UNION {{r} \cup Range(Desc(h, r)) : r \in roots}
    IN SubSeq(h, 1, CHOOSE m \in ids : \A x \in ids : x <= m)

(***************************************************************************)
(* The documents that are rewritten.                                       *)
(***************************************************************************)
WithId(e, id) == [e EXCEPT !.id = Some(id)]
IncX(href, xptr) ==
    [Elem(T_include, None, None, <<>>) EXCEPT !.href = Some(href),
                                              !.xpointer = Some(xptr)]
CiteT(target, tail) ==
    Elem(T_citerefentry, None, tail,
         <<Elem(T_refentrytitle, Some(target), None, <<>>)>>)

\* the xpointer of the include of row i
XPtrOf(i) ==
    IF i = 3 THEN <<"xpointer(/*/*)">>
    ELSE <<"xpointer(/*/*[">> \o S_role \o <<"4", Numeral(i)>> \o <<"'", "]/*)">>
         \o (IF i > 3 THEN <<"[", "@", "x", "=", "'", "y", "'", "]">> ELSE <<>>)

FuncName(i) == <<"gl", <<"A","B","C","D","E","F","G","H","I">>[i]>>

\* row i of a version table: np has a name and a pointer, n a name only,
\* p a pointer only
Row(i, kind) ==
    Elem(T_row, Some(<<"\n">>), Some(<<"\n">>),
         (IF kind \in {"np", "n"}
          THEN <<Elem(T_entry, None, Some(<<"\n">>),
                      <<Elem("db:function", Some(FuncName(i)), None, <<>>)>>)>>
          ELSE <<>>)
         \o (IF kind \in {"np", "p"}
             THEN <<IncX(H_apiversion, XPtrOf(i))>> ELSE <<>>))

RECURSIVE Tables(_)
Tables(n) ==
    IF n = 0 THEN {<<>>}
    ELSE Tables(n - 1) \cup
         {Append(rs, Row(n, k)) : rs \in {x \in Tables(n - 1) : Len(x) = n - 1},
                                  k \in {"np", "n", "p"}}

Versions(rows) ==
    WithId(Elem(T_refsect1, None, Some(<<"\n">>),
                <<Elem(T_title, Some(<<"Version Support">>), None, <<>>),
                  Elem("db:informaltable", None, None,
                       <<Elem("db:tgroup", None, None,
                              <<IncX(H_apifunchead, <<"xpointer(/*/*)">>),
                                Elem("db:tbody", None, None, rows)>>)>>)>>),
           "versions")

Seealso ==
    WithId(Elem(T_refsect1, None, Some(<<"\n">>),
                <<Elem(T_title, Some(<<"See Also">>), None, <<>>),
                  Elem(T_para, None, None, <<CiteT(<<"glZ">>, Some(<<",">>))>>)>>),
           "seealso")

Synopsis ==
    Elem(T_refsynopsisdiv, None, Some(<<"\n">>),
         <<Elem("db:funcsynopsis", None, None, <<CiteT(<<"glS">>, None)>>)>>)

P_plain == Elem(T_para, Some(<<"plain">>), Some(<<"\n">>), <<>>)
P_first ==
    Elem(T_para, Some(<<"see ">>), None, <<CiteT(<<"glX">>, Some(<<" now">>))>>)
P_adjacent ==
    Elem(T_para, None, None, <<CiteT(<<"glX">>, None), CiteT(<<"glY">>, Some(<<",">>))>>)
P_sibling ==
    Elem(T_para, Some(<<"a">>), None,
         <<Elem("db:emphasis", Some(<<"e">>), None, <<>>),
           CiteT(<<"glX">>, None), CiteT(<<"glY">>, Some(<<"z">>))>>)
P_nested ==
    Elem(T_para, None, Some(<<"\n">>),
         <<Elem("db:emphasis", Some(<<"e">>), Some(<<"t">>), <<>>),
           Elem(T_citerefentry, None, None,
                <<Elem(T_refentrytitle, Some(<<"glX">>), None,
                       <<CiteT(<<"glY">>, Some(<<"n">>))>>)>>),
           CiteT(<<"glZ">>, Some(<<"q">>))>>)

Paras == {P_plain, P_first, P_adjacent, P_sibling, P_nested}

RefDoc(para, rows) ==
    Elem(T_refentry, Some(<<"\n">>), None,
         <<Synopsis, Elem(T_refsect1, None, Some(<<"\n">>), <<para>>),
           Versions(rows), Seealso>>)

\* a reference entry with two see-also and two version blocks, one with
\* neither, one without a synopsis division, and a fragment
D_twice ==
    Elem(T_refentry, None, None,
         <<Seealso, Synopsis, Versions(<<Row(1, "np")>>), Seealso,
           Versions(<<Row(1, "n"), Row(2, "np")>>)>>)
D_bare == Elem(T_refentry, None, None, <<Synopsis, P_sibling>>)
D_nosynopsis == Elem(T_refentry, None, None, <<P_first, Seealso>>)
D_fragment == Elem(T_para, Some(<<"frag">>), None, <<CiteT(<<"glX">>, None)>>)

Documents ==
    {RefDoc(P_first, rows) : rows \in Tables(MaxRows)}
    \cup {RefDoc(p, <<Row(1, "np")>>) : p \in Paras}
    \cup {D_twice, D_bare, D_nosynopsis, D_fragment}

Companions == {D_fragment, RefDoc(P_nested, <<>>)}

(***************************************************************************)
(* convert.py: transform_docbook over the documents of a collation.        *)
(***************************************************************************)
Init ==
    /\ \E t1 \in Documents, t2 \in Companions :
          /\ heap = Parse(t1, 0, 0) \o Parse(t2, Size(t1), 0)
          /\ docs = <<[name |-> <<"doc1">>, xml_root |-> 1, parsed |-> t1],
                      [name |-> <<"doc2">>, xml_root |-> Size(t1) + 1, parsed |-> t2]>>
    /\ frame = None
    /\ written = <<<<>>, <<>>>>
    /\ calls = 0
    /\ last = None
    /\ directory = <<>> /\ collation = None
    /\ paramdef = None /\ param = None

Running(pc) == ~IsNone(frame) /\ Val(frame).pc = pc
Roots == {docs[d].xml_root : d \in 1..Len(docs)}

\* the call returns or raises: its locals are gone
Return(status, tree) ==
    /\ written' = [written EXCEPT ![Val(frame).doc] =
                      Append(@, [status |-> status, tree |-> tree])]
    /\ frame' = None
    /\ heap' = release(heap, Roots)
    /\ UNCHANGED <<directory, collation, paramdef, param, docs, calls, last>>

Step(h, pc, todo) ==
    /\ heap' = h
    /\ frame' = Some([Val(frame) EXCEPT !.pc = pc, !.todo = todo])
    /\ UNCHANGED <<directory, collation, paramdef, param, docs, written, calls>>

\* transform_docbook(dest_dir, main_file): xml_root = main_file.copy_xml()
TransformDocbook ==
    \E d \in 1..Len(docs) :
        /\ IsNone(frame)
        /\ calls < MaxCalls
        /\ calls' = calls + 1
        /\ LET c == copy_xml(heap, docs[d].xml_root)
           IN /\ heap' = c.heap
              /\ frame' = Some([doc |-> d, xml_root |-> c.root,
                                pc |-> "synopsis", todo |-> <<>>])
        /\ UNCHANGED <<directory, collation, paramdef, param, docs, written, last>>

\* _replace_synopsis(xml_root), then the see-also nodes are collected
ReplaceSynopsis ==
    /\ Running("synopsis")
    /\ LET r == _replace_synopsis(heap, Val(frame).xml_root)
       IN IF r.status = "ok"
          THEN /\ Step(r.heap, "seealso", _xpath_seealso(r.heap, Val(frame).xml_root))
               /\ UNCHANGED last
          ELSE Return(r.status, None)

\* for node in [...]: _replace_seealso(node)
ReplaceSeealso ==
    /\ Running("seealso")
    /\ Val(frame).todo # <<>>
    /\ LET r == _replace_seealso(heap, Head(Val(frame).todo))
       IN IF r.status = "ok"
          THEN /\ Step(r.heap, "seealso", Tail(Val(frame).todo))
               /\ UNCHANGED last
          ELSE Return(r.status, None)

\* _replace_versions(xml_root, main_file): versions = _xpath_versions(xml_root)
CollectVersions ==
    /\ Running("seealso")
    /\ Val(frame).todo = <<>>
    /\ Step(heap, "versions", _xpath_versions(heap, Val(frame).xml_root))
    /\ UNCHANGED last

\* for version_node in versions: ...
ReplaceVersion ==
    /\ Running("versions")
    /\ Val(frame).todo # <<>>
    /\ LET node == Head(Val(frame).todo)
           r == _replace_version(heap, node)
       IN IF r.status = "ok"
          THEN /\ Step(r.heap, "versions", Tail(Val(frame).todo))
               /\ last' = Some([op |-> "versions",
                                before |-> Tree(heap, node),
                                after |-> Tree(r.heap, Len(heap) + 1)])
          ELSE Return(r.status, None)

\* citations = [node for node in _xpath_citations(xml_root)]
CollectCitations ==
    /\ Running("versions")
    /\ Val(frame).todo = <<>>
    /\ Step(heap, "citations", _xpath_citations(heap, Val(frame).xml_root))
    /\ last' = Some([op |-> "citations",
                     before |-> Tree(heap, Val(frame).xml_root)])

\* for citation in citations: _remove_element(citation, preserve_text=True)
RemoveCitation ==
    /\ Running("citations")
    /\ Val(frame).todo # <<>>
    /\ LET r == _remove_element(heap, Head(Val(frame).todo), TRUE)
       IN IF r.status = "ok"
          THEN /\ Step(r.heap, "citations", Tail(Val(frame).todo))
               /\ UNCHANGED last
          ELSE Return(r.status, None)

\* xml_tree.write(...) succeeds; return dest_file
Write ==
    /\ Running("citations")
    /\ Val(frame).todo = <<>>
    /\ Return("ok", Some(Tree(heap, Val(frame).xml_root)))

\* xml_tree.write(...) raises: the destination cannot be written
WriteRaises ==
    /\ Running("citations")
    /\ Val(frame).todo = <<>>
    /\ Return("OSError", None)

Next ==
    \/ TransformDocbook
    \/ ReplaceSynopsis
    \/ ReplaceSeealso
    \/ CollectVersions
    \/ ReplaceVersion
    \/ CollectCitations
    \/ RemoveCitation
    \/ Write
    \/ WriteRaises

Spec == Init /\ [][Next]_vars

(***************************************************************************)
(* Properties of transform_docbook.                                        *)
(***************************************************************************)
\* "".join(t.itertext(with_tail=False)) of a document value
RECURSIVE InnerTextV(_)
InnerTextV(t) ==
    OrEmpty(t.text)
    \o Join([i \in 1..Len(t.kids) |->
               InnerTextV(t.kids[i]) \o OrEmpty(t.kids[i].tail)])

HasCitationV(t) == \E i \in 1..Len(DescV(t)) : DescV(t)[i].tag = T_citerefentry

Statuses(d) == [i \in 1..Len(written[d]) |-> written[d][i].status]

\* C5: whatever calls of transform_docbook have run, to completion or to a
\* failure part-way, and whatever call is in progress, the tree every
\* document stores is the tree that was parsed at collation time; and two
\* completed rewrites of the same document have written the same tree.
C5_CanonicalTreeKept ==
    /\ \A d \in 1..Len(docs) : Tree(heap, docs[d].xml_root) = docs[d].parsed
    /\ \A d \in 1..Len(written) : \A i, j \in 1..Len(written[d]) :
          (written[d][i].status = "ok" /\ written[d][j].status = "ok")
              => written[d][i].tree = written[d][j].tree

\* a document was rewritten twice, first failing at the very end and then
\* completing, and the rewritten tree differs from the stored one
C5_Witness ==
    \E d \in 1..Len(written) :
        /\ Statuses(d) = <<"OSError", "ok">>
        /\ written[d][2].tree # Some(docs[d].parsed)
        /\ Tree(heap, docs[d].xml_root) = docs[d].parsed

\* a document was rewritten twice to completion
C5_WitnessTwice ==
    \E d \in 1..Len(written) :
        /\ Statuses(d) = <<"ok", "ok">>
        /\ written[d][1].tree # Some(docs[d].parsed)

\* the version block that the last turn of the loop replaced, and the block
\* that replaced it
VersionsReplaced == ~IsNone(last) /\ Val(last).op = "versions"
OldBlock == Val(last).before
NewBlock == Val(last).after

\* the rows of the old block in table order, and the name entries and the
\* pointers of a row
TableRows == LET Is(e) == e.tag = T_row IN SelectSeq(DescV(OldBlock), Is)
NamesOfRow(row) == LET Is(e) == e.tag = T_entry IN SelectSeq(row.kids, Is)
PointersOfRow(row) ==
    LET Is(e) == e.tag = T_include /\ ~IsNone(e.xpointer)
    IN SelectSeq(row.kids, Is)
AllNames == Join([i \in 1..Len(TableRows) |-> NamesOfRow(TableRows[i])])
AllPointers == Join([i \in 1..Len(TableRows) |-> PointersOfRow(TableRows[i])])

\* the paragraphs between the two delimiter paragraphs of the new block
Delimited ==
    /\ Len(NewBlock.kids) >= 3
    /\ NewBlock.kids[1].text = Some(<<"Versions">>)
    /\ NewBlock.kids[2].text = Some(<<"VERSION_START_DELIMETER">>)
    /\ NewBlock.kids[Len(NewBlock.kids)].text = Some(<<"VERSION_END_DELIMETER">>)
VersionParagraphs == SubSeq(NewBlock.kids, 3, Len(NewBlock.kids) - 1)

Paragraph(name, pointer) ==
    Some(VersionText(InnerTextV(name),
                     _parse_version_from_xpointer(Val(pointer.xpointer))))

\* C6, as claimed: the i-th version paragraph pairs the name of row i with
\* the version identifier of the pointer of that same row, and there are as
\* many paragraphs as the smaller of the number of names and of pointers.
C6_ParagraphPairsOwnRow ==
    VersionsReplaced =>
        /\ Delimited
        /\ Len(VersionParagraphs) = Min(Len(AllNames), Len(AllPointers))
        /\ \A i \in 1..Len(VersionParagraphs) :
              /\ i <= Len(TableRows)
              /\ NamesOfRow(TableRows[i]) # <<>>
              /\ PointersOfRow(TableRows[i]) # <<>>
              /\ VersionParagraphs[i].text =
                    Paragraph(NamesOfRow(TableRows[i])[1],
                              PointersOfRow(TableRows[i])[1])

\* every row before row i has exactly one name and one pointer
AlignedBefore(i) ==
    \A j \in 1..(i - 1) : /\ Len(NamesOfRow(TableRows[j])) = 1
                          /\ Len(PointersOfRow(TableRows[j])) = 1

\* C6, amended: the i-th version paragraph pairs the i-th name of the table
\* with the version identifier of the i-th pointer of the table, both
\* counted in table order over all rows; these are the name and the pointer
\* of row i itself when every earlier row has exactly one of each; and there
\* are as many paragraphs as the smaller of the number of names and of
\* pointers.
C6_ParagraphPairsInTableOrder ==
    VersionsReplaced =>
        /\ Delimited
        /\ Len(VersionParagraphs) = Min(Len(AllNames), Len(AllPointers))
        /\ \A i \in 1..Len(VersionParagraphs) :
              /\ VersionParagraphs[i].tag = T_para
              /\ VersionParagraphs[i].text = Paragraph(AllNames[i], AllPointers[i])
              /\ (/\ AlignedBefore(i)
                  /\ NamesOfRow(TableRows[i]) # <<>>
                  /\ PointersOfRow(TableRows[i]) # <<>>)
                 => VersionParagraphs[i].text =
                       Paragraph(NamesOfRow(TableRows[i])[1],
                                 PointersOfRow(TableRows[i])[1])

\* a table of three name rows of which the first has no pointer was
\* replaced: two paragraphs, the first with the name of row 1 and the
\* pointer of row 2
C6_Witness ==
    /\ VersionsReplaced
    /\ Len(TableRows) = 3
    /\ Len(AllNames) = 3
    /\ Len(AllPointers) = 2
    /\ PointersOfRow(TableRows[1]) = <<>>
    /\ Len(VersionParagraphs) = 2
    /\ VersionParagraphs[1].text =
          Some(VersionText(FuncName(1), <<"4", Numeral(2)>>))

\* the tree before the citations are removed, and the tree that is written
CitationsRemoved ==
    /\ Running("citations")
    /\ Val(frame).todo = <<>>
WithCitations == Val(last).before
Rewritten == Tree(heap, Val(frame).xml_root)

\* a tree without its citation elements: the inner text and the tail of
\* each stand where the element stood, at the end of the tail of the
\* element before it or else of the text of its parent
RECURSIVE StripCitationsV(_)
RECURSIVE StripKids(_, _, _)
StripKids(text, done, rest) ==
    IF rest = <<>> THEN [text |-> text, kids |-> done]
    ELSE LET k == Head(rest)
             put == InnerTextV(k) \o OrEmpty(k.tail)
         IN IF k.tag # T_citerefentry
            THEN StripKids(text, Append(done, StripCitationsV(k)), Tail(rest))
            ELSE IF done = <<>>
            THEN StripKids(Some(OrEmpty(text) \o put), done, Tail(rest))
            ELSE StripKids(text,
                           [done EXCEPT ![Len(done)].tail =
                                            Some(OrEmpty(@) \o put)],
                           Tail(rest))
StripCitationsV(t) ==
    LET r == StripKids(t.text, <<>>, t.kids)
    IN [t EXCEPT !.text = r.text, !.kids = r.kids]

\* C10: once transform_docbook has removed the citations it collected, the
\* tree it goes on to write has no citation element, nested or adjacent ones
\* included; the text of the document reads as before, each citation's inner
\* text standing where the citation stood, followed by its tail; and no
\* written tree has a citation element.
C10_NoCitationTextKept ==
    /\ CitationsRemoved =>
          /\ ~HasCitationV(Rewritten)
          /\ InnerTextV(Rewritten) = InnerTextV(WithCitations)
          /\ Rewritten = StripCitationsV(WithCitations)
    /\ \A d \in 1..Len(written) : \A i \in 1..Len(written[d]) :
          written[d][i].status = "ok" => ~HasCitationV(Val(written[d][i].tree))

\* a document in which a citation held another citation and was followed
\* directly by a third one has had its citations removed
C10_Witness ==
    /\ CitationsRemoved
    /\ \E i \in 1..Len(DescV(WithCitations)) :
          LET p == DescV(WithCitations)[i]
          IN \E j \in 1..(Len(p.kids) - 1) :
                /\ p.kids[j].tag = T_citerefentry
                /\ HasCitationV(p.kids[j])
                /\ p.kids[j + 1].tag = T_citerefentry
                /\ InnerTextV(p.kids[j]) # <<>>
    /\ Rewritten # WithCitations

====
